---------------------------- MODULE Spec2Model ----------------------------
(***************************************************************************)
(* Writingway: the context-selection trees (ContextPanel in                *)
(* context_panel.py, ExtendedContextDialog in workshop.py), the context    *)
(* text assembled from them (ContextPanel.get_selected_context_text), the  *)
(* workshop conversation (WorkshopWindow.send_message in workshop.py), and *)
(* the send and text-to-speech handlers of the two windows                 *)
(* (project_window_core.py, workshop.py).                                  *)
(*                                                                         *)
(* Selection trees.  A QTreeWidget emits itemChanged synchronously from    *)
(* inside QTreeWidgetItem.setCheckState whenever the stored value really   *)
(* changes, and both widgets connect their propagation handler to that     *)
(* signal without ever blocking it.  Every setCheckState the handler makes *)
(* therefore runs the handler again, nested, before the outer call goes    *)
(* on.  The operators below follow that call structure literally.          *)
(***************************************************************************)
EXTENDS Integers, Sequences, FiniteSets, TLC

(***************************************************************************)
(* Bounds of the model.                                                    *)
(***************************************************************************)
MaxScenes == 2
MaxEntries == 2
MaxSends == 3
MaxBlank == 1
MaxNest == 2
MaxWorkers == 2

\* workshop.py: the token budget of a conversation payload.
TOKEN_LIMIT == 2000

VARIABLES
    widget,             \* which selection widget the behaviour follows
    project_structure,  \* acts -> chapters -> number of scenes
    compendium,         \* categories -> number of entries (sorted by label)
    tree,               \* item -> check state, both trees of the widget
    visible,            \* the context panel is shown
    last,               \* what the last operation was and did (history)
    picked              \* per chapter: the scenes checked one by one since
                        \* the chapter was last all Unchecked (history)

treeVars ==
    <<widget, project_structure, compendium, tree, visible, last, picked>>

VARIABLES
    conversation_history,    \* WorkshopWindow.conversation_history
    workshop_prompt_config,  \* the selected workshop prompt, or NoConfig
    chat_log,                \* the lines appended to the chat log
    sends,                   \* number of messages sent so far
    sent                     \* what the last send did (history)

chatVars ==
    <<conversation_history, workshop_prompt_config, chat_log, sends, sent>>

VARIABLES
    store,          \* chapter, scene, entry -> the text stored for it
    extra_context,  \* what get_selected_context_text returned, when it was
                    \* the last operation (history)
    selections      \* what get_selected_contexts returned, when it was the
                    \* last operation (history)

contextVars == <<store, extra_context, selections>>

VARIABLES
    input,          \* the text of prompt_input / chat_input
    send_enabled,   \* send_button.isEnabled()
    preview_text,   \* ProjectWindow.preview_text
    stack,          \* the send handlers running on the UI thread, the
                    \* innermost last
    alive,          \* the process has not been aborted
    did             \* what the last operation was (history)

sendVars == <<input, send_enabled, preview_text, stack, alive, did>>

VARIABLES
    tts_playing,    \* ProjectWindow.tts_playing
    tts_button,     \* the text of tts_button
    workers,        \* the threads started by toggle_tts and where each is
    posted,         \* on_complete timers posted and not yet fired
    wrote           \* which thread made the last write of tts_playing, of
                    \* the button text (history)

ttsVars == <<tts_playing, tts_button, workers, posted, wrote>>

VARIABLES
    compendium_json,  \* the compendium file: missing, or its content
    answer            \* what the last call on the file returned or raised

fileVars == <<compendium_json, answer>>

vars == <<treeVars, chatVars, contextVars, sendVars, ttsVars, fileVars>>

(***************************************************************************)
(* Items.  <<"act", a>>, <<"chapter", a, c>>, <<"scene", a, c, s>> in the  *)
(* project tree; <<"category", k>>, <<"entry", k, e>> in the compendium    *)
(* tree.  Children are numbered in insertion order.                        *)
(***************************************************************************)
NoItem == <<"none">>

Unchecked == "Unchecked"
PartiallyChecked == "PartiallyChecked"
Checked == "Checked"

ContextPanel == "ContextPanel"
ExtendedContextDialog == "ExtendedContextDialog"
Widgets == {ContextPanel, ExtendedContextDialog}

Kind(n) == n[1]

Parent(n) ==
    CASE Kind(n) = "chapter" -> <<"act", n[2]>>
      [] Kind(n) = "scene" -> <<"chapter", n[2], n[3]>>
      [] Kind(n) = "entry" -> <<"category", n[2]>>
      [] OTHER -> NoItem

Child(n, i) ==
    CASE Kind(n) = "act" -> <<"chapter", n[2], i>>
      [] Kind(n) = "chapter" -> <<"scene", n[2], n[3], i>>
      [] Kind(n) = "category" -> <<"entry", n[2], i>>
      [] OTHER -> NoItem

\* Items of the two trees for a given outline and compendium store.
ProjectItems(ps) ==
    {<<"act", a>> : a \in 1..Len(ps)}
    \cup UNION {{<<"chapter", a, c>> : c \in 1..Len(ps[a])} : a \in 1..Len(ps)}
    \cup UNION {UNION {{<<"scene", a, c, s>> : s \in 1..ps[a][c]}
                       : c \in 1..Len(ps[a])} : a \in 1..Len(ps)}

CompendiumItems(cp) ==
    {<<"category", k>> : k \in 1..Len(cp)}
    \cup UNION {{<<"entry", k, e>> : e \in 1..cp[k]} : k \in 1..Len(cp)}

\* Variant: category headers left checkable, as chapters are.
IsUserCheckable_CategoryToo(n) ==
    Kind(n) \in {"chapter", "scene", "entry", "category"}

\* Qt.ItemIsUserCheckable as the build_* methods set it: cleared on act and
\* category headers, set on chapters, scenes and compendium entries.
IsUserCheckable(n) == Kind(n) \in {"chapter", "scene", "entry"}

childCount(st, n) == Cardinality({m \in DOMAIN st : Parent(m) = n})


(***************************************************************************)
(* The propagation handlers.  A run carries r = [st, down, hdr, inert,     *)
(* ups]: st is the tree, down records that a handler handed                *)
(* PartiallyChecked to a child, hdr that a handler ran for a non-checkable *)
(* item, inert that every such run left the tree as it found it (last.hdr: *)
(* a handler has run for a non-checkable item at some time so far), ups    *)
(* counts the times a parent's state was recomputed.  A result that is used *)
(* more than once is bound by a quantifier over a singleton, so that it is *)
(* computed once.                                                          *)
(***************************************************************************)
RECURSIVE setCheckState(_, _, _, _)
RECURSIVE propagate_check_state(_, _)
RECURSIVE PanelChildren(_, _, _, _)
RECURSIVE update_parent_check_state(_, _)
RECURSIVE handle_item_changed(_, _)
RECURSIVE DialogChildren(_, _, _, _)
RECURSIVE update_parent(_, _)

\* The slot connected to itemChanged on both trees of widget w.
itemChanged(w, r, item) ==
    CHOOSE res \in
        {IF IsUserCheckable(item)
           THEN out
           ELSE [out EXCEPT !.hdr = TRUE,
                            !.inert = out.inert /\ out.st = r.st]
         : out \in {IF w = ContextPanel
                      THEN propagate_check_state(r, item)
                      ELSE handle_item_changed(r, item)}} : TRUE

\* QTreeWidgetItem.setCheckState: nothing when the value is unchanged,
\* otherwise store it and emit itemChanged, which runs the slot at once.
setCheckState(w, r, item, state) ==
    IF r.st[item] = state
      THEN r
      ELSE itemChanged(w, [r EXCEPT !.st[item] = state], item)

\* ContextPanel.propagate_check_state, the loop over the children.
PanelChildren(r, item, state, i) ==
    IF i > childCount(r.st, item)
      THEN r
      ELSE LET child == Child(item, i)
               r1 == IF IsUserCheckable(child)
                       THEN setCheckState(ContextPanel,
                                [r EXCEPT !.down = @ \/ state = PartiallyChecked],
                                child, state)
                       ELSE r
           IN  PanelChildren(r1, item, state, i + 1)

propagate_check_state(r, item) ==
    LET r1 == IF childCount(r.st, item) > 0
                THEN PanelChildren(r, item, r.st[item], 1)
                ELSE r
    IN  update_parent_check_state(r1, item)

\* The state ContextPanel gives a parent: it counts Checked children only.
PanelParentState(st, parent) ==
    LET n == childCount(st, parent)
        checked == Cardinality({i \in 1..n : st[Child(parent, i)] = Checked})
    IN  IF checked = n THEN Checked
        ELSE IF checked > 0 THEN PartiallyChecked
        ELSE Unchecked

\* Variant: the parent's checkable flag is not tested.
update_parent_check_state_AnyParent(r, item) ==
    LET parent == Parent(item)
    IN  IF parent = NoItem
          THEN r
          ELSE update_parent_check_state(
                   setCheckState(ContextPanel, [r EXCEPT !.ups = @ + 1], parent,
                                 PanelParentState(r.st, parent)),
                   parent)

update_parent_check_state(r, item) ==
    LET parent == Parent(item)
    IN  IF parent = NoItem \/ ~IsUserCheckable(parent)
          THEN r
          ELSE update_parent_check_state(
                   setCheckState(ContextPanel, [r EXCEPT !.ups = @ + 1], parent,
                                 PanelParentState(r.st, parent)),
                   parent)

\* ExtendedContextDialog.handle_item_changed, the loop over the children.
DialogChildren(r, item, state, i) ==
    IF i > childCount(r.st, item)
      THEN r
      ELSE LET child == Child(item, i)
               r1 == IF IsUserCheckable(child)
                       THEN setCheckState(ExtendedContextDialog,
                                [r EXCEPT !.down = @ \/ state = PartiallyChecked],
                                child, state)
                       ELSE r
           IN  DialogChildren(r1, item, state, i + 1)

handle_item_changed(r, item) ==
    IF IsUserCheckable(item)
      THEN update_parent(DialogChildren(r, item, r.st[item], 1), item)
      ELSE r

\* The state ExtendedContextDialog gives a parent: Checked children are
\* counted and a PartiallyChecked child raises a flag.
DialogParentState(st, parent) ==
    LET n == childCount(st, parent)
        checked == Cardinality({i \in 1..n : st[Child(parent, i)] = Checked})
        partial == \E i \in 1..n : st[Child(parent, i)] = PartiallyChecked
    IN  IF checked = n THEN Checked
        ELSE IF checked > 0 \/ partial THEN PartiallyChecked
        ELSE Unchecked

update_parent(r, item) ==
    LET parent == Parent(item)
    IN  IF parent = NoItem \/ ~IsUserCheckable(parent)
          THEN r
          ELSE update_parent(
                   setCheckState(ExtendedContextDialog, [r EXCEPT !.ups = @ + 1],
                                 parent,
                                 DialogParentState(r.st, parent)),
                   parent)

Run(st) ==
    [st |-> st, down |-> FALSE, hdr |-> FALSE, inert |-> TRUE, ups |-> 0]

\* A click on an item's check box (the view's delegate): Checked becomes
\* Unchecked, anything else becomes Checked.
ClickTarget(state) == IF state = Checked THEN Unchecked ELSE Checked

(***************************************************************************)
(* Building the trees.  Every item starts Unchecked.  When the trees are   *)
(* rebuilt with the slot connected, setFlags, setCheckState and setData on *)
(* the new item each emit itemChanged for it.                              *)
(***************************************************************************)
RECURSIVE Emit(_, _, _, _)
RECURSIVE NewItems(_, _, _)

\* k emissions of itemChanged for item n, one after the other.
Emit(w, r, n, k) ==
    IF k = 0
      THEN r
      ELSE CHOOSE res \in {Emit(w, out, n, k - 1)
                           : out \in {itemChanged(w, r, n)}} : TRUE

\* What the build code does to a new item: setFlags on every item, and
\* setCheckState and setData as well on a checkable one.
Emissions(n) == IF IsUserCheckable(n) THEN 3 ELSE 1

\* Insert the items of `order` one by one, each Unchecked.
NewItems(w, r, order) ==
    IF order = <<>>
      THEN r
      ELSE CHOOSE res \in
               {NewItems(w, out, Tail(order))
                : out \in {Emit(w, [r EXCEPT !.st = (Head(order) :> Unchecked) @@ @],
                                Head(order), Emissions(Head(order)))}} : TRUE

RECURSIVE SceneOrder(_, _, _, _)
RECURSIVE ChapterOrder(_, _, _)
RECURSIVE ActOrder(_, _)
RECURSIVE EntryOrder(_, _, _)
RECURSIVE CategoryOrder(_, _)

SceneOrder(ps, a, c, s) ==
    IF s > ps[a][c] THEN <<>>
    ELSE <<<<"scene", a, c, s>>>> \o SceneOrder(ps, a, c, s + 1)

ChapterOrder(ps, a, c) ==
    IF c > Len(ps[a]) THEN <<>>
    ELSE <<<<"chapter", a, c>>>> \o SceneOrder(ps, a, c, 1)
         \o ChapterOrder(ps, a, c + 1)

\* The order in which build_project_tree creates the items.
ActOrder(ps, a) ==
    IF a > Len(ps) THEN <<>>
    ELSE <<<<"act", a>>>> \o ChapterOrder(ps, a, 1) \o ActOrder(ps, a + 1)

EntryOrder(cp, k, e) ==
    IF e > cp[k] THEN <<>>
    ELSE <<<<"entry", k, e>>>> \o EntryOrder(cp, k, e + 1)

\* The order in which build_compendium_tree creates the items.
CategoryOrder(cp, k) ==
    IF k > Len(cp) THEN <<>>
    ELSE <<<<"category", k>>>> \o EntryOrder(cp, k, 1)
         \o CategoryOrder(cp, k + 1)

Without(st, kinds) == [n \in {m \in DOMAIN st : Kind(m) \notin kinds} |-> st[n]]

build_project_tree(w, r) ==
    NewItems(w, [r EXCEPT !.st = Without(r.st, {"act", "chapter", "scene"})],
             ActOrder(project_structure, 1))

build_compendium_tree(w, r) ==
    NewItems(w, [r EXCEPT !.st = Without(r.st, {"category", "entry"})],
             CategoryOrder(compendium, 1))

\* init_ui: both trees are built before the slot is connected.
init_ui(ps, cp) ==
    [n \in ProjectItems(ps) \cup CompendiumItems(cp) |-> Unchecked]

(***************************************************************************)
(* Context assembly (ContextPanel).  A text is a sequence of pieces, the   *)
(* empty sequence being the empty string.  The store gives every chapter  *)
(* (its summary), scene (its content) and compendium entry (its text in    *)
(* compendium.json) one of: "text", a non-empty text; "empty", the empty   *)
(* string; "absent", no text at all.                                       *)
(***************************************************************************)
Stored(st) == {n \in DOMAIN st : Kind(n) \in {"chapter", "scene", "entry"}}

\* item.text(0): the name the item was created with.
Label(n) == ToString(n)

\* chapter.get("summary", ""), scene.get("content", "").
StoredText(sto, n) ==
    IF sto[n] = "text" THEN <<"text of ", Label(n)>> ELSE <<>>

\* workshop.get_compendium_text: the entry's text in the store, or the
\* placeholder when the store has none.
get_compendium_text(sto, entry) ==
    IF sto[entry] = "absent"
      THEN <<"[No content for ", Label(entry), " in category ",
             Label(Parent(entry)), "]">>
      ELSE StoredText(sto, entry)

RECURSIVE _traverse_project_item(_, _, _)
RECURSIVE TraverseChildren(_, _, _, _)
RECURSIVE TraverseEntries(_, _, _, _)
RECURSIVE TraverseCategories(_, _, _)
RECURSIVE Join(_)

\* The text appended to texts for a chapter summary, a scene content or a
\* compendium entry of the given label and body.
RenderBlock(kind, label, body) ==
    CASE kind = "chapter" -> <<"[Chapter Summary - ", label, "]:", "\n">> \o body
      [] kind = "scene" -> <<"[Scene Content - ", label, "]:", "\n">> \o body
      [] OTHER -> body

\* _traverse_project_item: the blocks a checked item without children adds
\* to texts.
ProjectBlock(sto, item) ==
    IF Kind(item) \in {"chapter", "scene"} /\ StoredText(sto, item) # <<>>
      THEN <<RenderBlock(Kind(item), Label(item), StoredText(sto, item))>>
      ELSE <<>>

\* Variant: a Checked item is rendered before its children are visited.
_traverse_project_item_CheckedFirst(st, sto, item) ==
    (IF st[item] = Checked THEN ProjectBlock(sto, item) ELSE <<>>)
    \o TraverseChildren(st, sto, item, 1)

\* Variant: every leaf that is not Unchecked is rendered.
_traverse_project_item_NotUnchecked(st, sto, item) ==
    IF childCount(st, item) = 0 /\ st[item] # Unchecked
      THEN ProjectBlock(sto, item)
      ELSE TraverseChildren(st, sto, item, 1)

TraverseChildren(st, sto, item, i) ==
    IF i > childCount(st, item) THEN <<>>
    ELSE _traverse_project_item(st, sto, Child(item, i))
         \o TraverseChildren(st, sto, item, i + 1)

_traverse_project_item(st, sto, item) ==
    IF childCount(st, item) = 0 /\ st[item] = Checked
      THEN ProjectBlock(sto, item)
      ELSE TraverseChildren(st, sto, item, 1)

\* get_selected_context_text: the project tree's top-level items in order.
TraverseActs(st, sto) ==
    LET acts == {n \in DOMAIN st : Kind(n) = "act"}
        F[a \in 0..Cardinality(acts)] ==
            IF a = 0 THEN <<>>
            ELSE F[a - 1] \o _traverse_project_item(st, sto, <<"act", a>>)
    IN  F[Cardinality(acts)]

TraverseEntries(st, sto, cat, j) ==
    IF j > childCount(st, cat) THEN <<>>
    ELSE (IF st[Child(cat, j)] = Checked
            THEN <<get_compendium_text(sto, Child(cat, j))>>
            ELSE <<>>)
         \o TraverseEntries(st, sto, cat, j + 1)

\* get_selected_context_text: the compendium tree's categories in order.
TraverseCategories(st, sto, k) ==
    IF <<"category", k>> \notin DOMAIN st THEN <<>>
    ELSE TraverseEntries(st, sto, <<"category", k>>, 1)
         \o TraverseCategories(st, sto, k + 1)

\* "\n\n".join(texts)
Join(texts) ==
    IF texts = <<>> THEN <<>>
    ELSE IF Len(texts) = 1 THEN texts[1]
    ELSE texts[1] \o <<"\n\n">> \o Join(Tail(texts))

\* Variant: the header and the blocks are joined like the blocks are.
get_selected_context_text_BlankLine(st, sto) ==
    IF TraverseActs(st, sto) \o TraverseCategories(st, sto, 1) # <<>>
      THEN <<"Additional Context:", "\n\n">>
           \o Join(TraverseActs(st, sto) \o TraverseCategories(st, sto, 1))
      ELSE <<>>

\* Variant: the compendium tree is walked before the project tree.
SelectedTexts_CompendiumFirst(st, sto) ==
    TraverseCategories(st, sto, 1) \o TraverseActs(st, sto)

\* The blocks get_selected_context_text collects, project tree first.
SelectedTexts(st, sto) ==
    TraverseActs(st, sto) \o TraverseCategories(st, sto, 1)

\* ContextPanel.get_selected_context_text
get_selected_context_text(st, sto) ==
    IF SelectedTexts(st, sto) # <<>>
      THEN <<"Additional Context:", "\n">> \o Join(SelectedTexts(st, sto))
      ELSE <<>>

RECURSIVE traverse(_, _)
RECURSIVE TraverseEach(_, _, _)
RECURSIVE SelectedEntries(_, _, _)
RECURSIVE SelectedCategories(_, _)

\* Variant: every item without children that is not Unchecked is selected.
traverse_NotUnchecked(st, item) ==
    IF childCount(st, item) = 0 /\ st[item] # Unchecked
      THEN <<<<Label(item)>>>>
      ELSE TraverseEach(st, item, 1)

\* get_selected_contexts, traverse: a Checked item without children adds
\* its label, any other item passes the walk on to its children.
traverse(st, item) ==
    IF childCount(st, item) = 0 /\ st[item] = Checked
      THEN <<<<Label(item)>>>>
      ELSE TraverseEach(st, item, 1)

TraverseEach(st, item, i) ==
    IF i > childCount(st, item) THEN <<>>
    ELSE traverse(st, Child(item, i)) \o TraverseEach(st, item, i + 1)

\* get_selected_contexts: the project tree's top-level items in order.
SelectedActs(st) ==
    LET acts == {n \in DOMAIN st : Kind(n) = "act"}
        F[a \in 0..Cardinality(acts)] ==
            IF a = 0 THEN <<>>
            ELSE F[a - 1] \o traverse(st, <<"act", a>>)
    IN  F[Cardinality(acts)]

\* f"{category}: {entry_item.text(0)}"
EntrySelection(entry) == <<Label(Parent(entry)), ": ", Label(entry)>>

SelectedEntries(st, cat, j) ==
    IF j > childCount(st, cat) THEN <<>>
    ELSE (IF st[Child(cat, j)] = Checked
            THEN <<EntrySelection(Child(cat, j))>>
            ELSE <<>>)
         \o SelectedEntries(st, cat, j + 1)

\* get_selected_contexts: the compendium tree's categories in order.
SelectedCategories(st, k) ==
    IF <<"category", k>> \notin DOMAIN st THEN <<>>
    ELSE SelectedEntries(st, <<"category", k>>, 1)
         \o SelectedCategories(st, k + 1)

\* ExtendedContextDialog.get_selected_contexts
get_selected_contexts(st) == SelectedActs(st) \o SelectedCategories(st, 1)

\* Nothing returned by the last operation.
NoContext == [called |-> FALSE, text |-> <<>>]
NoSelections == [called |-> FALSE, list |-> <<>>]

\* JSON values: null, an array, or an object with its members.
JsonNull == [type |-> "null", map |-> <<>>]
JsonList == [type |-> "list", map |-> <<>>]
JsonObject(m) == [type |-> "object", map |-> m]

\* No compendium file, and no call on it yet.
NoFile == [exists |-> FALSE, valid |-> FALSE, json |-> JsonNull]
NoAnswer == [op |-> "none", raised |-> FALSE]

(***************************************************************************)
(* Inputs: the outline has no act, an act without chapters, or one act     *)
(* with two chapters, the second of one scene; the compendium store has    *)
(* no category or two categories, the second of one entry.                 *)
(***************************************************************************)
ProjectStructures ==
    {<<>>, <<<<>>>>} \cup {<<<<s, 1>>>> : s \in 0..MaxScenes}

Compendiums ==
    {<<>>} \cup {<<e, 1>> : e \in 0..MaxEntries}

NoOp == [op |-> "init", item |-> NoItem, to |-> Unchecked,
         down |-> FALSE, hdr |-> FALSE, inert |-> TRUE, ups |-> 0,
         agree |-> TRUE]

\* The widget with the other implementation of the handlers.
Other(w) == IF w = ContextPanel THEN ExtendedContextDialog ELSE ContextPanel

\* The levels of the project tree: act, chapter, scene.
TreeDepth == 3

Chapters(st) == {n \in DOMAIN st : Kind(n) = "chapter"}
Scenes(st, c) == {n \in DOMAIN st : Kind(n) = "scene" /\ Parent(n) = c}
AllUnchecked(st, c) ==
    st[c] = Unchecked /\ \A s \in Scenes(st, c) : st[s] = Unchecked

Fresh == [on |-> TRUE, set |-> {}]
Off == [on |-> FALSE, set |-> {}]

\* The history of one-by-one checking after a click on `item` gave tree st.
PickedAfterClick(st, item) ==
    [c \in Chapters(st) |->
        IF item # c /\ Parent(item) # c THEN picked[c]
        ELSE IF Kind(item) = "scene" /\ picked[c].on /\ item \notin picked[c].set
               THEN [on |-> TRUE, set |-> picked[c].set \cup {item}]
        ELSE IF AllUnchecked(st, c) THEN Fresh
        ELSE Off]

\* Nothing done yet in the send handlers; nothing written by toggle_tts.
Did(op, blank, warned) == [op |-> op, blank |-> blank, warned |-> warned]
NoDid == Did("init", FALSE, FALSE)
NoWrite == [tts_playing |-> "ui", tts_button |-> "ui"]

\* No workshop prompt selected; nothing sent yet.
NoConfig == [set |-> FALSE, text |-> 0]
NoSend == [op |-> "none", before |-> <<>>, full |-> <<>>, payload |-> <<>>,
           summarized |-> FALSE]

\* A window after construction, for every outline and compendium store of
\* the inputs; the ContextPanel may start shown or hidden.
InitTree ==
    /\ widget \in Widgets
    /\ project_structure \in ProjectStructures
    /\ compendium \in Compendiums
    /\ tree = init_ui(project_structure, compendium)
    /\ visible \in (IF widget = ContextPanel THEN BOOLEAN ELSE {FALSE})
    /\ last = NoOp
    /\ picked = [c \in Chapters(tree) |-> Fresh]
    /\ conversation_history = <<>>
    /\ workshop_prompt_config = NoConfig
    /\ chat_log = <<>>
    /\ sends = 0
    /\ sent = NoSend
    /\ store = [n \in Stored(tree) |-> "text"]
    /\ extra_context = NoContext
    /\ selections = NoSelections
    /\ input = <<>>
    /\ send_enabled = TRUE
    /\ preview_text = ""
    /\ stack = <<>>
    /\ alive = TRUE
    /\ did = NoDid
    /\ tts_playing = FALSE
    /\ tts_button = "TTS"
    /\ workers = <<>>
    /\ posted = 0
    /\ wrote = NoWrite
    /\ compendium_json = NoFile
    /\ answer = NoAnswer

\* The user clicks the check box of item n.  last.agree records whether
\* the handlers of the other widget, run on the same tree for the same
\* click, end with the same states.
Click(n) ==
    /\ visible
    /\ n \in DOMAIN tree
    /\ IsUserCheckable(n)
    /\ \E out \in {setCheckState(widget, Run(tree), n, ClickTarget(tree[n]))} :
           /\ tree' = out.st
           /\ last' = [op |-> "click", item |-> n, to |-> ClickTarget(tree[n]),
                       down |-> out.down, hdr |-> last.hdr \/ out.hdr,
                       inert |-> out.inert, ups |-> out.ups,
                       agree |-> out.st =
                           setCheckState(Other(widget), Run(tree), n,
                                         ClickTarget(tree[n])).st]
           /\ picked' = PickedAfterClick(out.st, n)
    /\ extra_context' = NoContext
    /\ selections' = NoSelections
    /\ UNCHANGED <<widget, project_structure, compendium, visible, store>>
    /\ UNCHANGED <<chatVars, sendVars, ttsVars, fileVars>>

\* ProjectWindow.toggle_context_panel: hide, or rebuild both trees and show.
ProjectToggleContextPanel ==
    /\ widget = ContextPanel
    /\ IF visible
         THEN /\ visible' = FALSE
              /\ last' = [NoOp EXCEPT !.op = "hide", !.hdr = last.hdr]
              /\ UNCHANGED <<tree, picked>>
         ELSE \E out \in {build_compendium_tree(ContextPanel,
                              build_project_tree(ContextPanel, Run(tree)))} :
                  /\ tree' = out.st
                  /\ visible' = TRUE
                  /\ last' = [NoOp EXCEPT !.op = "show", !.down = out.down,
                                          !.hdr = last.hdr \/ out.hdr,
                                          !.inert = out.inert]
                  /\ picked' = [c \in Chapters(out.st) |->
                                   IF AllUnchecked(out.st, c) THEN Fresh ELSE Off]
    /\ extra_context' = NoContext
    /\ selections' = NoSelections
    /\ UNCHANGED <<widget, project_structure, compendium, store>>
    /\ UNCHANGED <<chatVars, sendVars, ttsVars, fileVars>>

\* WorkshopWindow.toggle_context_panel: hide or show, the trees are kept.
WorkshopToggleContextPanel ==
    /\ widget = ExtendedContextDialog
    /\ visible' = ~visible
    /\ last' = [NoOp EXCEPT !.op = IF visible THEN "hide" ELSE "show"]
    /\ extra_context' = NoContext
    /\ selections' = NoSelections
    /\ UNCHANGED <<widget, project_structure, compendium, tree, picked, store>>
    /\ UNCHANGED <<chatVars, sendVars, ttsVars, fileVars>>

NextTree ==
    \/ \E n \in DOMAIN tree : Click(n)
    \/ ProjectToggleContextPanel
    \/ WorkshopToggleContextPanel

(***************************************************************************)
(* The workshop conversation.  A message is [role, content]; a content is  *)
(* a record with its kind and its token cost: the workshop prompt's text,  *)
(* the n-th user message as augmented by send_message, the n-th response,  *)
(* or a summary of the payload `of`.                                       *)
(***************************************************************************)
\* Token costs of the texts: prompt texts, augmented user messages,
\* responses and summaries.
PromptCosts == {0, 200}
UserCosts == {800, 1000, 2100}
ResponseCosts == {200, 1000}
SummaryCosts == {100, 2000}

PromptConfigs == {[set |-> TRUE, text |-> c] : c \in PromptCosts}

Message(role, content) == [role |-> role, content |-> content]
UserText(n, c) == [kind |-> "user", n |-> n, cost |-> c]
ResponseText(n, c) == [kind |-> "response", n |-> n, cost |-> c]
PromptText(c) == [kind |-> "prompt", n |-> 0, cost |-> c]
SummaryText(payload, c) ==
    [kind |-> "summary", n |-> 0, cost |-> c, of |-> payload]

RECURSIVE estimate_conversation_tokens(_)

\* conversation_history_manager.estimate_conversation_tokens: the cost of
\* the concatenated contents, which grows with every message added.
estimate_conversation_tokens(payload) ==
    IF payload = <<>>
      THEN 0
      ELSE Head(payload).content.cost + estimate_conversation_tokens(Tail(payload))

\* conversation_history_manager.summarize_conversation: a text of cost c
\* that stands for the whole payload.
summarize_conversation(payload, c) == SummaryText(payload, c)

\* Variant: the workshop prompt is added on every send.
ConversationPayload_PromptAlways(history, config, user) ==
    history
    \o (IF config.set
          THEN <<Message("system", PromptText(config.text))>>
          ELSE <<>>)
    \o <<Message("user", user)>>

\* send_message: the payload is a copy of the history, with the workshop
\* prompt first when the history is empty and a prompt is selected, and the
\* user's message last.
ConversationPayload(history, config, user) ==
    history
    \o (IF history = <<>> /\ config.set
          THEN <<Message("system", PromptText(config.text))>>
          ELSE <<>>)
    \o <<Message("user", user)>>

\* Variant: the budget test also fires at the limit itself.
OverBudget_AtLimit(payload) ==
    estimate_conversation_tokens(payload) >= TOKEN_LIMIT

\* send_message: the budget test.
OverBudget(payload) == estimate_conversation_tokens(payload) > TOKEN_LIMIT

\* Variant: only the summary is kept.
SummarizedPayload_SummaryOnly(payload, summary) ==
    <<Message("system", summary)>>

\* send_message: what replaces an over-budget payload.
SummarizedPayload(payload, summary) ==
    <<payload[1], Message("system", summary)>>

\* A workshop window after construction, on a project with no outline and
\* no compendium.
InitChat ==
    /\ widget = ExtendedContextDialog
    /\ project_structure = <<>>
    /\ compendium = <<>>
    /\ tree = init_ui(project_structure, compendium)
    /\ visible = FALSE
    /\ last = NoOp
    /\ picked = [c \in Chapters(tree) |-> Fresh]
    /\ conversation_history = <<>>
    /\ workshop_prompt_config = NoConfig
    /\ chat_log = <<>>
    /\ sends = 0
    /\ sent = NoSend
    /\ store = [n \in Stored(tree) |-> "text"]
    /\ extra_context = NoContext
    /\ selections = NoSelections
    /\ input = <<>>
    /\ send_enabled = TRUE
    /\ preview_text = ""
    /\ stack = <<>>
    /\ alive = TRUE
    /\ did = NoDid
    /\ tts_playing = FALSE
    /\ tts_button = "TTS"
    /\ workers = <<>>
    /\ posted = 0
    /\ wrote = NoWrite
    /\ compendium_json = NoFile
    /\ answer = NoAnswer

\* WorkshopWindow.select_workshop_prompt: the user picks prompt p.
SelectWorkshopPrompt(p) ==
    /\ sends < MaxSends
    /\ workshop_prompt_config' = p
    /\ UNCHANGED <<conversation_history, chat_log, sends, sent>>
    /\ UNCHANGED <<treeVars, contextVars, sendVars, ttsVars, fileVars>>

\* WorkshopWindow.send_message with a non-empty message of cost u; the
\* summarizer answers a text of cost sc and the LLM one of cost rc.
SendMessage(u, sc, rc) ==
    /\ sends < MaxSends
    /\ LET n == sends + 1
           full == ConversationPayload(conversation_history,
                                       workshop_prompt_config, UserText(n, u))
           over == OverBudget(full)
           payload == IF over
                        THEN SummarizedPayload(full, summarize_conversation(full, sc))
                        ELSE full
       IN  /\ conversation_history' =
                  Append(payload, Message("assistant", ResponseText(n, rc)))
           /\ chat_log' = chat_log \o <<"You", "Generating">>
                          \o (IF over THEN <<"Summarized">> ELSE <<>>)
                          \o <<"LLM">>
           /\ sends' = n
           /\ sent' = [op |-> "send", before |-> conversation_history,
                       full |-> full, payload |-> payload, summarized |-> over]
    /\ UNCHANGED workshop_prompt_config
    /\ UNCHANGED <<treeVars, contextVars, sendVars, ttsVars, fileVars>>

NextChat ==
    \/ \E p \in PromptConfigs \cup {NoConfig} : SelectWorkshopPrompt(p)
    \/ \E u \in UserCosts, sc \in SummaryCosts, rc \in ResponseCosts :
           SendMessage(u, sc, rc)

(***************************************************************************)
(* Context assembly on a ContextPanel.                                     *)
(***************************************************************************)
\* The stores of the inputs: at most MaxBlank items have no text or the
\* empty text; only a compendium entry can be absent from its store.
Stores(st) ==
    {sto \in [Stored(st) -> {"text", "empty", "absent"}] :
        /\ \A n \in Stored(st) : sto[n] = "absent" => Kind(n) = "entry"
        /\ Cardinality({n \in Stored(st) : sto[n] # "text"}) <= MaxBlank}

\* The outlines and compendiums of the panel: one act whose first chapter
\* has no scene and whose second has one, or one act with a chapter of two
\* scenes; no category, or two categories, of two entries and of one.
ContextOutlines == {<<<<0, 1>>>>, <<<<2>>>>}
ContextCompendiums == {<<>>, <<2, 1>>}

\* A shown ContextPanel after construction, for every outline, compendium
\* and store of the inputs.
InitContext ==
    /\ widget = ContextPanel
    /\ project_structure \in ContextOutlines
    /\ compendium \in ContextCompendiums
    /\ tree = init_ui(project_structure, compendium)
    /\ visible = TRUE
    /\ last = NoOp
    /\ picked = [c \in Chapters(tree) |-> Fresh]
    /\ conversation_history = <<>>
    /\ workshop_prompt_config = NoConfig
    /\ chat_log = <<>>
    /\ sends = 0
    /\ sent = NoSend
    /\ store \in Stores(tree)
    /\ extra_context = NoContext
    /\ selections = NoSelections
    /\ input = <<>>
    /\ send_enabled = TRUE
    /\ preview_text = ""
    /\ stack = <<>>
    /\ alive = TRUE
    /\ did = NoDid
    /\ tts_playing = FALSE
    /\ tts_button = "TTS"
    /\ workers = <<>>
    /\ posted = 0
    /\ wrote = NoWrite
    /\ compendium_json = NoFile
    /\ answer = NoAnswer

\* ProjectWindow.send_prompt asks the panel for the selected context.
GetSelectedContextText ==
    /\ widget = ContextPanel
    /\ extra_context' =
           [called |-> TRUE, text |-> get_selected_context_text(tree, store)]
    /\ selections' = NoSelections
    /\ last' = [NoOp EXCEPT !.op = "context", !.hdr = last.hdr]
    /\ UNCHANGED <<widget, project_structure, compendium, tree, visible,
                   picked, store>>
    /\ UNCHANGED <<chatVars, sendVars, ttsVars, fileVars>>

NextContext ==
    \/ \E n \in DOMAIN tree : Click(n)
    \/ GetSelectedContextText

(***************************************************************************)
(* The selection of either widget, read back after clicks.                 *)
(***************************************************************************)
\* A shown ContextPanel or ExtendedContextDialog after construction, every
\* stored text present.
InitSelection ==
    /\ widget \in Widgets
    /\ project_structure \in ContextOutlines
    /\ compendium \in ContextCompendiums
    /\ tree = init_ui(project_structure, compendium)
    /\ visible = TRUE
    /\ last = NoOp
    /\ picked = [c \in Chapters(tree) |-> Fresh]
    /\ conversation_history = <<>>
    /\ workshop_prompt_config = NoConfig
    /\ chat_log = <<>>
    /\ sends = 0
    /\ sent = NoSend
    /\ store = [n \in Stored(tree) |-> "text"]
    /\ extra_context = NoContext
    /\ selections = NoSelections
    /\ input = <<>>
    /\ send_enabled = TRUE
    /\ preview_text = ""
    /\ stack = <<>>
    /\ alive = TRUE
    /\ did = NoDid
    /\ tts_playing = FALSE
    /\ tts_button = "TTS"
    /\ workers = <<>>
    /\ posted = 0
    /\ wrote = NoWrite
    /\ compendium_json = NoFile
    /\ answer = NoAnswer

\* ExtendedContextDialog.on_ok / WorkshopWindow.send_message ask the dialog
\* for the selected items.
GetSelectedContexts ==
    /\ widget = ExtendedContextDialog
    /\ selections' = [called |-> TRUE, list |-> get_selected_contexts(tree)]
    /\ extra_context' = NoContext
    /\ last' = [NoOp EXCEPT !.op = "selections", !.hdr = last.hdr]
    /\ UNCHANGED <<widget, project_structure, compendium, tree, visible,
                   picked, store>>
    /\ UNCHANGED <<chatVars, sendVars, ttsVars, fileVars>>

NextSelection ==
    \/ \E n \in DOMAIN tree : Click(n)
    \/ GetSelectedContextText
    \/ GetSelectedContexts

(***************************************************************************)
(* The compendium file.  compendium.json is missing, is not JSON, or holds *)
(* a JSON value; the readers expect an object whose member "categories"    *)
(* maps category names to objects that map entry names to texts.           *)
(***************************************************************************)
CategoryNames == {"c1", "c2"}
EntryNames == {"e1", "e2"}
Texts == {<<>>, <<"t">>}

\* What a category name can be mapped to: an array, or entries with texts.
EntryMaps == UNION {[S -> Texts] : S \in SUBSET EntryNames}
CategoryValues == {JsonList} \cup {JsonObject(m) : m \in EntryMaps}
CategoryMaps == UNION {[S -> CategoryValues] : S \in SUBSET CategoryNames}

\* The documents: null, an array, an object without "categories", an object
\* whose "categories" is an array, an object whose "categories" is a mapping.
Documents ==
    {JsonNull, JsonList, JsonObject(<<>>),
     JsonObject("categories" :> JsonList)}
    \cup {JsonObject("categories" :> JsonObject(m)) : m \in CategoryMaps}

Files ==
    {NoFile, [exists |-> TRUE, valid |-> FALSE, json |-> JsonNull]}
    \cup {[exists |-> TRUE, valid |-> TRUE, json |-> d] : d \in Documents}

\* A call returns a value or raises.
Return(v) == [raised |-> FALSE, value |-> v]
Raise == [raised |-> TRUE, value |-> <<>>]

\* dict.get(key, default)
Get(object, key, default) ==
    IF key \in DOMAIN object.map THEN object.map[key] ELSE default

\* workshop.get_compendium_data: the document of a file that exists and
\* parses, {"categories": {}} otherwise.
get_compendium_data(file) ==
    IF file.exists /\ file.valid
      THEN file.json
      ELSE JsonObject("categories" :> JsonObject(<<>>))

\* f"[No content for {entry} in category {category}]"
Placeholder(category, entry) ==
    <<"[No content for ", entry, " in category ", category, "]">>

\* workshop.get_compendium_text on a file.  .get is a method of dict only:
\* on any other value the attribute lookup raises AttributeError.
CompendiumText(file, category, entry) ==
    LET data == get_compendium_data(file)
        categories == Get(data, "categories", JsonObject(<<>>))
        entries == Get(categories, category, JsonObject(<<>>))
    IN  IF data.type # "object" THEN Raise
        ELSE IF categories.type # "object" THEN Raise
        ELSE IF entries.type # "object" THEN Raise
        ELSE Return(Get(entries, entry, Placeholder(category, entry)))

\* The data build_compendium_tree starts from: the panel reads the file
\* itself and takes {} when open or json.load raises, the dialog calls
\* get_compendium_data.
LoadData(w, file) ==
    IF w = ContextPanel
      THEN (IF file.exists /\ file.valid THEN file.json ELSE JsonObject(<<>>))
      ELSE get_compendium_data(file)

\* build_compendium_tree on a file: the items of the tree built, a
\* category as <<name>> and an entry as <<category, name>>.  .get, .items
\* and .keys are methods of dict only.
BuildCompendiumTreeFrom(w, file) ==
    LET data == LoadData(w, file)
        categories == Get(data, "categories", JsonObject(<<>>))
    IN  IF data.type # "object" THEN Raise
        ELSE IF categories.type # "object" THEN Raise
        ELSE IF \E c \in DOMAIN categories.map :
                    categories.map[c].type # "object"
          THEN Raise
        ELSE Return({<<c>> : c \in DOMAIN categories.map}
                    \cup UNION {{<<c, e>> : e \in DOMAIN categories.map[c].map} :
                                   c \in DOMAIN categories.map})

\* The kinds, labels and bodies of the blocks rendered.
BlockKinds == {"chapter", "scene", "compendium"}
BlockLabels == {"a", "b"}
BlockBodies == {<<>>, <<"t">>, <<"t", "u">>}

\* A widget about to read the compendium file, for every file.
InitFile ==
    /\ widget \in Widgets
    /\ project_structure = <<>>
    /\ compendium = <<>>
    /\ tree = init_ui(project_structure, compendium)
    /\ visible = TRUE
    /\ last = NoOp
    /\ picked = [c \in Chapters(tree) |-> Fresh]
    /\ conversation_history = <<>>
    /\ workshop_prompt_config = NoConfig
    /\ chat_log = <<>>
    /\ sends = 0
    /\ sent = NoSend
    /\ store = [n \in Stored(tree) |-> "text"]
    /\ extra_context = NoContext
    /\ selections = NoSelections
    /\ input = <<>>
    /\ send_enabled = TRUE
    /\ preview_text = ""
    /\ stack = <<>>
    /\ alive = TRUE
    /\ did = NoDid
    /\ tts_playing = FALSE
    /\ tts_button = "TTS"
    /\ workers = <<>>
    /\ posted = 0
    /\ wrote = NoWrite
    /\ compendium_json \in Files
    /\ answer = NoAnswer

\* get_compendium_text(category, entry) is called.
GetCompendiumText(category, entry) ==
    /\ \E out \in {CompendiumText(compendium_json, category, entry)} :
           answer' = [op |-> "text", category |-> category, entry |-> entry,
                      raised |-> out.raised, value |-> out.value]
    /\ UNCHANGED compendium_json
    /\ UNCHANGED <<treeVars, chatVars, contextVars, sendVars, ttsVars>>

\* build_compendium_tree is called on the widget.
BuildCompendiumTree ==
    /\ \E out \in {BuildCompendiumTreeFrom(widget, compendium_json)} :
           answer' = [op |-> "build", raised |-> out.raised,
                      value |-> out.value]
    /\ UNCHANGED compendium_json
    /\ UNCHANGED <<treeVars, chatVars, contextVars, sendVars, ttsVars>>

\* A block is rendered for a checked leaf: a chapter or scene with a body
\* that is not empty, or a compendium entry with any body.
RenderedBlock(kind, label, body) ==
    /\ kind = "compendium" \/ body # <<>>
    /\ answer' = [op |-> "block", kind |-> kind, label |-> label,
                  body |-> body, raised |-> FALSE,
                  value |-> RenderBlock(kind, label, body)]
    /\ UNCHANGED compendium_json
    /\ UNCHANGED <<treeVars, chatVars, contextVars, sendVars, ttsVars>>

NextFile ==
    \/ \E c \in CategoryNames, e \in EntryNames : GetCompendiumText(c, e)
    \/ BuildCompendiumTree
    \/ \E k \in BlockKinds, l \in BlockLabels, b \in BlockBodies :
           RenderedBlock(k, l, b)

(***************************************************************************)
(* Sending, step by step.  send_prompt and send_message run on the UI      *)
(* thread.  Each calls QApplication.processEvents() before it calls the    *)
(* transport, and send_message once more after the response: in there the  *)
(* events the user has queued are delivered, and a handler started by one  *)
(* of them runs to its end, nested, before processEvents returns.  The     *)
(* stack holds the handlers that have begun, each with the place it is at: *)
(* "events" (processEvents before the request), "request" (inside the      *)
(* transport call), "events2" (processEvents after the response).          *)
(***************************************************************************)
Whitespace == {" ", "\n"}

RECURSIVE lstrip(_)
lstrip(t) ==
    IF t # <<>> /\ Head(t) \in Whitespace THEN lstrip(Tail(t)) ELSE t

RECURSIVE rstrip(_)
rstrip(t) ==
    IF t # <<>> /\ t[Len(t)] \in Whitespace
      THEN rstrip(SubSeq(t, 1, Len(t) - 1))
      ELSE t

\* str.strip()
strip(t) == rstrip(lstrip(t))

\* What the user may have typed: nothing, white space only, or a text.
Inputs == {<<>>, <<" ", "\n">>, <<" ", "a">>}

\* llm_integration.send_prompt_to_llm and prompt_handler.send_final_prompt:
\* the call returns the response text or fails with a transport error.
send_prompt_to_llm == {"response", "error"}
send_final_prompt == {"response", "error"}

Frame(pc, n, user) ==
    [pc |-> pc, n |-> n, user |-> user, before |-> <<>>, full |-> <<>>,
     payload |-> <<>>, over |-> FALSE, response |-> <<>>]

Top == stack[Len(stack)]
Pop == SubSeq(stack, 1, Len(stack) - 1)
InFlight == {i \in 1..Len(stack) : stack[i].pc = "request"}

\* The UI thread is in an event loop, the main one or a processEvents call,
\* and delivers the user's events.
Dispatch ==
    /\ alive
    /\ IF stack = <<>> THEN TRUE ELSE Top.pc \in {"events", "events2"}

CanStart == Dispatch /\ Len(stack) < MaxNest /\ sends < MaxSends

\* The window of a ContextPanel is a ProjectWindow, that of an
\* ExtendedContextDialog a WorkshopWindow.
ProjectWindow == widget = ContextPanel
WorkshopWindow == widget = ExtendedContextDialog

\* The user edits the input field.
TypeInput(t) ==
    /\ Dispatch
    /\ t # input
    /\ input' = t
    /\ did' = Did("type", FALSE, FALSE)
    /\ UNCHANGED <<send_enabled, preview_text, stack, alive>>
    /\ UNCHANGED <<treeVars, chatVars, contextVars, ttsVars, fileVars>>

\* ProjectWindow.send_prompt up to its processEvents call; preview is the
\* preview text the handler finds.
send_prompt(op, preview) ==
    IF strip(input) = <<>>
      THEN /\ did' = Did(op, TRUE, TRUE)
           /\ preview_text' = preview
           /\ UNCHANGED <<send_enabled, stack, sends>>
      ELSE /\ did' = Did(op, FALSE, FALSE)
           /\ send_enabled' = FALSE
           /\ preview_text' = "Generating preview..."
           /\ stack' = Append(stack, Frame("events", sends + 1, strip(input)))
           /\ sends' = sends + 1

\* The user clicks Send in the project window.
SendPrompt ==
    /\ ProjectWindow
    /\ CanStart
    /\ send_enabled
    /\ send_prompt("send", preview_text)
    /\ UNCHANGED <<input, alive>>
    /\ UNCHANGED <<conversation_history, workshop_prompt_config, chat_log, sent>>
    /\ UNCHANGED <<treeVars, contextVars, ttsVars, fileVars>>

\* ProjectWindow.retry_prompt: the user clicks Retry.
RetryPrompt ==
    /\ ProjectWindow
    /\ CanStart
    /\ send_prompt("retry", "")
    /\ UNCHANGED <<input, alive>>
    /\ UNCHANGED <<conversation_history, workshop_prompt_config, chat_log, sent>>
    /\ UNCHANGED <<treeVars, contextVars, ttsVars, fileVars>>

\* send_prompt: processEvents returns and send_final_prompt is called.
SendPromptRequest ==
    /\ ProjectWindow
    /\ alive
    /\ stack # <<>>
    /\ Top.pc = "events"
    /\ stack' = Append(Pop, [Top EXCEPT !.pc = "request"])
    /\ did' = Did("request", FALSE, FALSE)
    /\ UNCHANGED <<input, send_enabled, preview_text, alive>>
    /\ UNCHANGED <<treeVars, chatVars, contextVars, ttsVars, fileVars>>

\* send_prompt: send_final_prompt returns the generated text.
SendPromptResponse ==
    /\ ProjectWindow
    /\ alive
    /\ stack # <<>>
    /\ Top.pc = "request"
    /\ "response" \in send_final_prompt
    /\ preview_text' = "generated"
    /\ send_enabled' = TRUE
    /\ stack' = Pop
    /\ did' = Did("response", FALSE, FALSE)
    /\ UNCHANGED <<input, alive>>
    /\ UNCHANGED <<treeVars, chatVars, contextVars, ttsVars, fileVars>>

\* send_prompt: send_final_prompt raises.  Nothing in send_prompt catches
\* the exception: it leaves the slot, and either ends the process (abort)
\* or is reported while the event loop goes on.
SendPromptRaises(abort) ==
    /\ ProjectWindow
    /\ alive
    /\ stack # <<>>
    /\ Top.pc = "request"
    /\ "error" \in send_final_prompt
    /\ stack' = IF abort THEN <<>> ELSE Pop
    /\ alive' = ~abort
    /\ did' = Did("raised", FALSE, FALSE)
    /\ UNCHANGED <<input, send_enabled, preview_text>>
    /\ UNCHANGED <<treeVars, chatVars, contextVars, ttsVars, fileVars>>

\* Variant: the payload is stored as the history before the transport is
\* called.
HistoryAtRequest_Stored(history, payload) == payload

\* send_message: the history while the transport is called; the payload is
\* a copy, and is stored only after the response has come.
HistoryAtRequest(history, payload) == history

\* WorkshopWindow.send_message up to its first processEvents call: the user
\* clicks Send; u is the cost of the message with its context.
SendMessageStart(u) ==
    /\ WorkshopWindow
    /\ CanStart
    /\ send_enabled
    /\ IF strip(input) = <<>>
         THEN /\ did' = Did("send", TRUE, FALSE)
              /\ UNCHANGED <<input, stack, sends, chat_log>>
         ELSE /\ did' = Did("send", FALSE, FALSE)
              /\ chat_log' = chat_log \o <<"You", "Generating">>
              /\ input' = <<>>
              /\ stack' = Append(stack, Frame("events", sends + 1,
                                              UserText(sends + 1, u)))
              /\ sends' = sends + 1
    /\ UNCHANGED <<send_enabled, preview_text, alive>>
    /\ UNCHANGED <<conversation_history, workshop_prompt_config, sent>>
    /\ UNCHANGED <<treeVars, contextVars, ttsVars, fileVars>>

\* send_message: processEvents returns, the payload is built, summarized
\* when over budget (the summary costs sc), and send_prompt_to_llm is
\* called.
SendMessageRequest(sc) ==
    /\ WorkshopWindow
    /\ alive
    /\ stack # <<>>
    /\ Top.pc = "events"
    /\ LET full == ConversationPayload(conversation_history,
                                       workshop_prompt_config, Top.user)
           over == OverBudget(full)
           payload == IF over
                        THEN SummarizedPayload(full, summarize_conversation(full, sc))
                        ELSE full
       IN  /\ stack' = Append(Pop, [Top EXCEPT !.pc = "request",
                                       !.before = conversation_history,
                                       !.full = full, !.payload = payload,
                                       !.over = over])
           /\ chat_log' = chat_log \o (IF over THEN <<"Summarized">> ELSE <<>>)
           /\ conversation_history' =
                  HistoryAtRequest(conversation_history, payload)
    /\ did' = Did("request", FALSE, FALSE)
    /\ UNCHANGED <<input, send_enabled, preview_text, alive>>
    /\ UNCHANGED <<workshop_prompt_config, sends, sent>>
    /\ UNCHANGED <<treeVars, contextVars, ttsVars, fileVars>>

\* send_message: send_prompt_to_llm returns a response of cost rc, which is
\* shown; processEvents is called again.
SendMessageResponse(rc) ==
    /\ WorkshopWindow
    /\ alive
    /\ stack # <<>>
    /\ Top.pc = "request"
    /\ "response" \in send_prompt_to_llm
    /\ stack' = Append(Pop, [Top EXCEPT !.pc = "events2",
                                !.response = ResponseText(Top.n, rc)])
    /\ chat_log' = Append(chat_log, "LLM")
    /\ did' = Did("response", FALSE, FALSE)
    /\ UNCHANGED <<input, send_enabled, preview_text, alive>>
    /\ UNCHANGED <<conversation_history, workshop_prompt_config, sends, sent>>
    /\ UNCHANGED <<treeVars, contextVars, ttsVars, fileVars>>

\* send_message: the second processEvents returns; the payload, with the
\* response appended, becomes the history.
SendMessageStore ==
    /\ WorkshopWindow
    /\ alive
    /\ stack # <<>>
    /\ Top.pc = "events2"
    /\ conversation_history' =
           Append(Top.payload, Message("assistant", Top.response))
    /\ sent' = [op |-> "send", before |-> Top.before, full |-> Top.full,
                payload |-> Top.payload, summarized |-> Top.over]
    /\ stack' = Pop
    /\ did' = Did("stored", FALSE, FALSE)
    /\ UNCHANGED <<input, send_enabled, preview_text, alive>>
    /\ UNCHANGED <<workshop_prompt_config, chat_log, sends>>
    /\ UNCHANGED <<treeVars, contextVars, ttsVars, fileVars>>

\* send_message: send_prompt_to_llm raises.  Nothing in send_message
\* catches the exception: it leaves the slot, and either ends the process
\* (abort) or is reported while the event loop goes on.
SendMessageRaises(abort) ==
    /\ WorkshopWindow
    /\ alive
    /\ stack # <<>>
    /\ Top.pc = "request"
    /\ "error" \in send_prompt_to_llm
    /\ stack' = IF abort THEN <<>> ELSE Pop
    /\ alive' = ~abort
    /\ did' = [Did("raised", FALSE, FALSE) EXCEPT !.op = "raised"]
    /\ sent' = [op |-> "raised", before |-> Top.before, full |-> Top.full,
                payload |-> Top.payload, summarized |-> Top.over]
    /\ UNCHANGED <<input, send_enabled, preview_text>>
    /\ UNCHANGED <<conversation_history, workshop_prompt_config, chat_log, sends>>
    /\ UNCHANGED <<treeVars, contextVars, ttsVars, fileVars>>

\* The costs of the texts of the sends followed step by step: the second
\* message finds the payload over budget.
StepCosts == [user |-> 1000, summary |-> 100, response |-> 1000]

\* A project window or a workshop window after construction, on a project
\* with no outline and no compendium.
InitSend ==
    /\ widget \in Widgets
    /\ project_structure = <<>>
    /\ compendium = <<>>
    /\ tree = init_ui(project_structure, compendium)
    /\ visible = FALSE
    /\ last = NoOp
    /\ picked = [c \in Chapters(tree) |-> Fresh]
    /\ conversation_history = <<>>
    /\ workshop_prompt_config = NoConfig
    /\ chat_log = <<>>
    /\ sends = 0
    /\ sent = NoSend
    /\ store = [n \in Stored(tree) |-> "text"]
    /\ extra_context = NoContext
    /\ selections = NoSelections
    /\ input = <<>>
    /\ send_enabled = TRUE
    /\ preview_text = ""
    /\ stack = <<>>
    /\ alive = TRUE
    /\ did = NoDid
    /\ tts_playing = FALSE
    /\ tts_button = "TTS"
    /\ workers = <<>>
    /\ posted = 0
    /\ wrote = NoWrite
    /\ compendium_json = NoFile
    /\ answer = NoAnswer

NextSend ==
    \/ \E t \in Inputs : TypeInput(t)
    \/ SendPrompt
    \/ RetryPrompt
    \/ SendPromptRequest
    \/ SendPromptResponse
    \/ \E abort \in BOOLEAN : SendPromptRaises(abort)
    \/ SendMessageStart(StepCosts.user)
    \/ SendMessageRequest(StepCosts.summary)
    \/ SendMessageResponse(StepCosts.response)
    \/ SendMessageStore
    \/ \E abort \in BOOLEAN : SendMessageRaises(abort)

\* A handler that has begun goes on: processEvents returns, and the
\* transport call ends, with a response or with an error.
SendFairness ==
    /\ WF_vars(SendPromptRequest)
    /\ WF_vars(SendPromptResponse \/ \E abort \in BOOLEAN : SendPromptRaises(abort))
    /\ WF_vars(SendMessageRequest(StepCosts.summary))
    /\ WF_vars(SendMessageResponse(StepCosts.response)
                 \/ \E abort \in BOOLEAN : SendMessageRaises(abort))
    /\ WF_vars(SendMessageStore)

(***************************************************************************)
(* Text to speech.  toggle_tts runs on the UI thread and starts a plain    *)
(* threading.Thread for run_speech; a worker is at "speak" (inside         *)
(* tts_manager.speak), at "finally" (speak has ended) or "done".           *)
(***************************************************************************)
\* ProjectWindow.toggle_tts: the user clicks the TTS button; hasText tells
\* whether the editor holds anything to read.
ToggleTts(hasText) ==
    /\ ProjectWindow
    /\ Dispatch
    /\ IF tts_playing
         THEN /\ tts_playing' = FALSE
              /\ tts_button' = "TTS"
              /\ wrote' = [tts_playing |-> "ui", tts_button |-> "ui"]
              /\ did' = Did("tts", FALSE, FALSE)
              /\ UNCHANGED workers
         ELSE IF ~hasText
                THEN /\ did' = Did("tts", TRUE, TRUE)
                     /\ UNCHANGED <<tts_playing, tts_button, wrote, workers>>
                ELSE /\ Len(workers) < MaxWorkers
                     /\ tts_playing' = TRUE
                     /\ tts_button' = "Stop TTS"
                     /\ wrote' = [tts_playing |-> "ui", tts_button |-> "ui"]
                     /\ workers' = Append(workers, "speak")
                     /\ did' = Did("tts", FALSE, FALSE)
    /\ UNCHANGED posted
    /\ UNCHANGED <<input, send_enabled, preview_text, stack, alive>>
    /\ UNCHANGED <<treeVars, chatVars, contextVars, fileVars>>

\* run_speech, on worker w: tts_manager.speak ends, because the text has
\* been read or the speech was stopped; when it ends with on_complete
\* (completed), the worker posts the timer that resets the button text,
\* otherwise it has raised and the error is printed.
SpeakEnds(w, completed) ==
    /\ alive
    /\ w \in 1..Len(workers)
    /\ workers[w] = "speak"
    /\ workers' = [workers EXCEPT ![w] = "finally"]
    /\ posted' = IF completed THEN posted + 1 ELSE posted
    /\ UNCHANGED <<tts_playing, tts_button, wrote>>
    /\ UNCHANGED <<treeVars, chatVars, contextVars, sendVars, fileVars>>

\* run_speech, on worker w: finally: self.tts_playing = False.
SpeechFinally(w) ==
    /\ alive
    /\ w \in 1..Len(workers)
    /\ workers[w] = "finally"
    /\ workers' = [workers EXCEPT ![w] = "done"]
    /\ tts_playing' = FALSE
    /\ wrote' = [wrote EXCEPT !.tts_playing = "worker"]
    /\ UNCHANGED <<tts_button, posted>>
    /\ UNCHANGED <<treeVars, chatVars, contextVars, sendVars, fileVars>>

\* The UI thread runs a posted QTimer.singleShot(0, ...) callback.
TimerFires ==
    /\ Dispatch
    /\ posted > 0
    /\ posted' = posted - 1
    /\ tts_button' = "TTS"
    /\ wrote' = [wrote EXCEPT !.tts_button = "ui"]
    /\ UNCHANGED <<tts_playing, workers>>
    /\ UNCHANGED <<treeVars, chatVars, contextVars, sendVars, fileVars>>

\* A project window after construction, on a project with no outline and
\* no compendium.
InitTts ==
    /\ widget = ContextPanel
    /\ project_structure = <<>>
    /\ compendium = <<>>
    /\ tree = init_ui(project_structure, compendium)
    /\ visible = FALSE
    /\ last = NoOp
    /\ picked = [c \in Chapters(tree) |-> Fresh]
    /\ conversation_history = <<>>
    /\ workshop_prompt_config = NoConfig
    /\ chat_log = <<>>
    /\ sends = 0
    /\ sent = NoSend
    /\ store = [n \in Stored(tree) |-> "text"]
    /\ extra_context = NoContext
    /\ selections = NoSelections
    /\ input = <<>>
    /\ send_enabled = TRUE
    /\ preview_text = ""
    /\ stack = <<>>
    /\ alive = TRUE
    /\ did = NoDid
    /\ tts_playing = FALSE
    /\ tts_button = "TTS"
    /\ workers = <<>>
    /\ posted = 0
    /\ wrote = NoWrite
    /\ compendium_json = NoFile
    /\ answer = NoAnswer

\* Speech and sends of a project window.
NextTts ==
    \/ \E hasText \in BOOLEAN : ToggleTts(hasText)
    \/ \E w \in 1..MaxWorkers, completed \in BOOLEAN : SpeakEnds(w, completed)
    \/ \E w \in 1..MaxWorkers : SpeechFinally(w)
    \/ TimerFires
    \/ \E t \in Inputs : TypeInput(t)
    \/ SendPrompt
    \/ SendPromptRequest
    \/ SendPromptResponse

(***************************************************************************)
(* Specifications: the selection trees of one widget with the workshop     *)
(* conversation untouched; the conversation of a workshop whose project    *)
(* has no outline and no compendium, every send run without interruption;  *)
(* the context text of a ContextPanel; the sends of either window step by  *)
(* step; speech and sends of a project window; and the step-by-step sends  *)
(* with every running handler going on.                                    *)
(***************************************************************************)
SpecTree == InitTree /\ [][NextTree]_vars

SpecChat == InitChat /\ [][NextChat]_vars

SpecSelection == InitSelection /\ [][NextSelection]_vars
SpecFile == InitFile /\ [][NextFile]_vars
SpecContext == InitContext /\ [][NextContext]_vars

SpecSend == InitSend /\ [][NextSend]_vars

SpecTts == InitTts /\ [][NextTts]_vars

FairSpecSend == InitSend /\ [][NextSend]_vars /\ SendFairness

(***************************************************************************)
(* The aggregation rule of the specification: a node with checkable        *)
(* children is Checked iff all of them are Checked, Unchecked iff none is  *)
(* Checked and none PartiallyChecked, PartiallyChecked otherwise.          *)
(***************************************************************************)
CheckableChildren(st, n) ==
    {m \in DOMAIN st : Parent(m) = n /\ IsUserCheckable(m)}

AggregationRule(st, n) ==
    IF \A m \in CheckableChildren(st, n) : st[m] = Checked THEN Checked
    ELSE IF \A m \in CheckableChildren(st, n) : st[m] = Unchecked THEN Unchecked
    ELSE PartiallyChecked

\* C1: after every handled change, every checkable node that has children
\* has the state the aggregation rule gives over its checkable children.
C1_AggregationInvariant ==
    \A n \in DOMAIN tree :
        IsUserCheckable(n) /\ childCount(tree, n) > 0
            => tree[n] = AggregationRule(tree, n)

\* C2: once a click that sets a chapter to Checked (resp. Unchecked) has
\* been handled, every scene of that chapter is Checked (resp. Unchecked).
C2_ChapterForcesScenes ==
    last.op = "click" /\ Kind(last.item) = "chapter"
        => \A s \in Scenes(tree, last.item) : tree[s] = last.to

\* C3: from an all-unchecked chapter with at least two scenes, checking a
\* non-empty proper subset of the scenes one by one leaves the chapter
\* PartiallyChecked, the checked scenes Checked and the others Unchecked.
C3_SomeScenesPartial ==
    \A c \in Chapters(tree) :
        (/\ picked[c].on
         /\ picked[c].set # {}
         /\ picked[c].set # Scenes(tree, c))
            => /\ tree[c] = PartiallyChecked
               /\ \A s \in Scenes(tree, c) :
                      tree[s] = IF s \in picked[c].set THEN Checked ELSE Unchecked

\* C4: from an all-unchecked chapter, checking every scene one by one, in
\* any order, leaves the chapter and all its scenes Checked.
C4_AllScenesChecked ==
    \A c \in Chapters(tree) :
        (/\ picked[c].on
         /\ picked[c].set # {}
         /\ picked[c].set = Scenes(tree, c))
            => /\ tree[c] = Checked
               /\ \A s \in Scenes(tree, c) : tree[s] = Checked

\* C5: PartiallyChecked never goes downward: no childless node is ever
\* PartiallyChecked and no handler run hands PartiallyChecked to a child.
C5_PartialNeverDownward ==
    /\ \A n \in DOMAIN tree :
           childCount(tree, n) = 0 => tree[n] # PartiallyChecked
    /\ ~last.down

Headers(st) == {n \in DOMAIN st : Kind(n) \in {"act", "category"}}
Categories(st) == {n \in DOMAIN st : Kind(n) = "category"}
Entries(st, k) == {n \in DOMAIN st : Kind(n) = "entry" /\ Parent(n) = k}

C7_HeadersInert ==
    /\ last.inert
    /\ \A n \in DOMAIN tree :
           Kind(n) \in {"act", "category"} => tree[n] = Unchecked
    /\ last.op = "click" => IsUserCheckable(last.item)

\* C7 witness: the handler has run for the headers (the trees were rebuilt
\* with the slot connected), and a chapter clicked to Checked leaves its
\* act Unchecked.
C7_Witness ==
    /\ last.hdr
    /\ last.op = "click"
    /\ Kind(last.item) = "chapter"
    /\ tree[last.item] = Checked
    /\ tree[Parent(last.item)] = Unchecked

IsSummary(m) == m.role = "system" /\ m.content.kind = "summary"
IsPrompt(m) == m.role = "system" /\ m.content.kind = "prompt"

\* C8 as stated: when a send finds the payload over budget, what replaces
\* the payload is the original system message followed by the summary when
\* the payload began with a system message, and the summary alone when it
\* did not; no user or assistant message is retained.
C8_SummarizedHistoryShape ==
    sent.op = "send" /\ sent.summarized
        => /\ IF sent.full[1].role = "system"
                THEN /\ Len(sent.payload) = 2
                     /\ sent.payload[1] = sent.full[1]
                     /\ IsSummary(sent.payload[2])
                ELSE /\ Len(sent.payload) = 1
                     /\ IsSummary(sent.payload[1])
           /\ \A i \in 1..Len(sent.payload) :
                  sent.payload[i].role \notin {"user", "assistant"}

\* C9: a send summarizes if and only if the estimate of the full payload is
\* strictly greater than the budget of 2000; at 2000 or less the payload is
\* sent as it is and stored with the response appended.
C9_SummarizeIffOverBudget ==
    sent.op = "send"
        => /\ sent.summarized
                  <=> estimate_conversation_tokens(sent.full) > 2000
           /\ sent.summarized <=> sent.payload # sent.full
           /\ estimate_conversation_tokens(sent.full) <= 2000
                  => /\ sent.payload = sent.full
                     /\ Len(conversation_history) = Len(sent.full) + 1
                     /\ SubSeq(conversation_history, 1, Len(sent.full)) = sent.full

\* C9 witness: a send whose payload is estimated at exactly the budget.
C9_Witness ==
    /\ sent.op = "send"
    /\ estimate_conversation_tokens(sent.full) = 2000
    /\ ~sent.summarized

\* C10: every over-budget send summarizes the payload it has then, also
\* when the history already holds a summary: the summary stands for that
\* whole payload and ends what replaces it, right after the leading system
\* message when the payload began with one; and a leading system message
\* stays the first history entry through every send.
C10_Reentrant ==
    sent.op = "send"
        => /\ estimate_conversation_tokens(sent.full) > TOKEN_LIMIT
                  => /\ sent.summarized
                     /\ IsSummary(sent.payload[Len(sent.payload)])
                     /\ sent.payload[Len(sent.payload)].content.of = sent.full
                     /\ IsPrompt(sent.full[1])
                            => /\ Len(sent.payload) = 2
                               /\ sent.payload[1] = sent.full[1]
           /\ sent.before # <<>> /\ IsPrompt(sent.before[1])
                  => conversation_history[1] = sent.before[1]
           /\ IsPrompt(sent.full[1]) => conversation_history[1] = sent.full[1]

\* C10 witness: a second summarization, of a payload that holds the summary
\* of the first, with the workshop prompt still the first history entry.
C10_Witness ==
    /\ sent.op = "send"
    /\ sent.summarized
    /\ \E i \in 1..Len(sent.full) : IsSummary(sent.full[i])
    /\ IsPrompt(conversation_history[1])
    /\ IsPrompt(sent.before[1])

\* C11: on every send that does not summarize, the history before the send
\* is a prefix of the history after it, and what is appended is exactly the
\* workshop prompt as a system message (only when the history was empty and
\* a prompt is selected), the user's message, then the assistant's response.
C11_AppendOnly ==
    [][sends' = sends + 1 /\ ~sent'.summarized
         => LET before == conversation_history
                after == conversation_history'
                system == before = <<>> /\ workshop_prompt_config.set
                k == Len(before) + (IF system THEN 1 ELSE 0)
            IN  /\ Len(after) = k + 2
                /\ SubSeq(after, 1, Len(before)) = before
                /\ system => after[1] = Message("system",
                                 PromptText(workshop_prompt_config.text))
                /\ after[k + 1].role = "user"
                /\ after[k + 1].content.kind = "user"
                /\ after[k + 1].content.n = sends'
                /\ after[k + 2].role = "assistant"
                /\ after[k + 2].content.kind = "response"
                /\ after[k + 2].content.n = sends']_vars

\* C11 witness: a send that did not summarize, made on a non-empty history
\* with a workshop prompt selected.
C11_Witness ==
    /\ sent.op = "send"
    /\ ~sent.summarized
    /\ sent.before # <<>>
    /\ workshop_prompt_config.set
    /\ Len(conversation_history) = Len(sent.before) + 2

\* C12 as stated: every payload handed to the LLM transport has an estimate
\* not greater than the budget.
C12_PayloadWithinBudget ==
    sent.op = "send" => estimate_conversation_tokens(sent.payload) <= TOKEN_LIMIT

NoneChecked(st) == \A n \in DOMAIN st : st[n] # Checked

\* C18: get_selected_context_text on trees in which no node is Checked
\* returns the empty string, for every tree shape and every store.
C18_NoneCheckedEmpty ==
    extra_context.called /\ NoneChecked(tree) => extra_context.text = <<>>

\* C18 witness: the call was made on trees with scenes and entries, one of
\* them PartiallyChecked and none Checked.
C18_Witness ==
    /\ extra_context.called
    /\ NoneChecked(tree)
    /\ \E n \in DOMAIN tree : tree[n] = PartiallyChecked
    /\ \E n \in DOMAIN tree : Kind(n) = "entry"
    /\ extra_context.text = <<>>

\* The only Checked item without children is s; whatever else is Checked
\* is the chapter s belongs to.
OnlyChecked(st, s) ==
    /\ s \in DOMAIN st
    /\ st[s] = Checked
    /\ childCount(st, s) = 0
    /\ \A n \in DOMAIN st \ {s} : st[n] = Checked => n = Parent(s)

\* C19: with exactly one checked scene of label L and non-empty content C
\* and nothing else checked, get_selected_context_text returns exactly
\* "Additional Context:\n[Scene Content - L]:\nC"; a checked chapter without
\* scenes and with non-empty summary S gives "[Chapter Summary - L]:\nS" in
\* the same way.
C19_SingleBlock ==
    extra_context.called
        => \A s \in DOMAIN tree :
               OnlyChecked(tree, s) /\ store[s] = "text"
                   => /\ Kind(s) = "scene"
                          => extra_context.text =
                                 <<"Additional Context:", "\n",
                                   "[Scene Content - ", Label(s), "]:", "\n",
                                   "text of ", Label(s)>>
                      /\ Kind(s) = "chapter"
                          => extra_context.text =
                                 <<"Additional Context:", "\n",
                                   "[Chapter Summary - ", Label(s), "]:", "\n",
                                   "text of ", Label(s)>>

\* C19 witness: the call returned the block of the one checked scene.
C19_Witness ==
    /\ extra_context.called
    /\ \E s \in DOMAIN tree :
           /\ Kind(s) = "scene"
           /\ OnlyChecked(tree, s)
           /\ store[s] = "text"
    /\ Len(extra_context.text) = 8
    /\ extra_context.text[3] = "[Scene Content - "

\* C19 witness, second half: the block of a checked chapter without scenes.
C19_WitnessChapter ==
    /\ extra_context.called
    /\ \E s \in DOMAIN tree :
           /\ Kind(s) = "chapter"
           /\ OnlyChecked(tree, s)
           /\ store[s] = "text"
    /\ Len(extra_context.text) = 8
    /\ extra_context.text[3] = "[Chapter Summary - "

\* The Checked items without children, in the order of the traversal, and
\* the text each is rendered to.
CheckedLeaves(st) ==
    SelectSeq(ActOrder(project_structure, 1) \o CategoryOrder(compendium, 1),
              LAMBDA n : st[n] = Checked /\ childCount(st, n) = 0)

Rendered(sto, n) ==
    IF Kind(n) = "entry" THEN <<get_compendium_text(sto, n)>>
    ELSE ProjectBlock(sto, n)

\* C20 as stated: the result is the empty string, or the header followed by
\* one or more non-empty blocks joined by a blank line; a checked leaf whose
\* stored text is empty contributes no block, and alone gives the empty
\* string.
C20_OnlyNonEmptyBlocks ==
    extra_context.called
        => LET leaves == SelectSeq(CheckedLeaves(tree),
                             LAMBDA n : store[n] # "empty")
               F[i \in 0..Len(leaves)] ==
                   IF i = 0 THEN <<>>
                   ELSE F[i - 1] \o Rendered(store, leaves[i])
           IN  extra_context.text =
                   IF leaves = <<>> THEN <<>>
                   ELSE <<"Additional Context:", "\n">> \o Join(F[Len(leaves)])

\* C13: if the LLM transport fails during a send, the failure is surfaced
\* as an error (it leaves send_message as an exception) and the history
\* afterwards equals the history before the send: no assistant message is
\* appended for the failed request.
C13_FailureKeepsHistory ==
    [][did'.op = "raised" /\ WorkshopWindow
         => /\ conversation_history' = Top.before
            /\ conversation_history' = conversation_history
            /\ Len(stack') < Len(stack)
            /\ sent'.op = "raised"]_vars

\* C13 witness: a request failed after an earlier exchange was stored, and
\* the process goes on with the history of that exchange.
C13_Witness ==
    /\ WorkshopWindow
    /\ did.op = "raised"
    /\ alive
    /\ sent.op = "raised"
    /\ sent.before # <<>>
    /\ conversation_history = sent.before

\* C14 as stated: at most one request is in flight at any time, and while a
\* request is in flight the send control is disabled, in both windows.
C14_OneInFlightSendDisabled ==
    /\ Cardinality(InFlight) <= 1
    /\ InFlight # {} => ~send_enabled

\* C15 as stated: whenever the send control is disabled it is eventually
\* enabled again, whether the request completes or fails.
C15_SendReenabled == (~send_enabled) ~> send_enabled

\* C17 as stated: a send with empty or whitespace-only input issues no
\* request, leaves the history, the preview text and the send control
\* unchanged, and shows the user a warning, in both windows.
C17_BlankInputRejected ==
    [][did'.op = "send" /\ did'.blank
         => /\ did'.warned
            /\ UNCHANGED <<stack, sends, conversation_history, preview_text,
                           send_enabled>>]_vars

\* C16 as stated: LLM sends and TTS playback run on a worker separate from
\* the UI event loop, and the worker never writes UI-owned state
\* (tts_playing, button text) directly: no request is run by a handler on
\* the UI thread, and every write of tts_playing and of the button text is
\* made by the UI thread.
C16_WorkerNeverWritesUiState ==
    /\ InFlight = {}
    /\ wrote.tts_playing = "ui"
    /\ wrote.tts_button = "ui"

\* C16, the speech half alone: every write of tts_playing and of the button
\* text is made by the UI thread.
C16_SpeechWritesOnUiThread ==
    wrote.tts_playing = "ui" /\ wrote.tts_button = "ui"

\* The places of a piece in a text, and the place where the block of item
\* n begins in the text returned: the first place of n's label.
Places(text, piece) == {i \in 1..Len(text) : text[i] = piece}
First(text, n) ==
    CHOOSE i \in Places(text, Label(n)) :
        \A j \in Places(text, Label(n)) : i <= j

\* The items in the order in which the trees were built, and the place of
\* item n in it.
BuildOrder == ActOrder(project_structure, 1) \o CategoryOrder(compendium, 1)
Rank(n) == CHOOSE i \in 1..Len(BuildOrder) : BuildOrder[i] = n

\* The items that have a block in the text returned.
Contributors ==
    {n \in Stored(tree) : Places(extra_context.text, Label(n)) # {}}

C22_SummaryOnlyOfLeafChapter ==
    extra_context.called
        => /\ \A c \in Chapters(tree) :
                  c \in Contributors
                      <=> /\ childCount(tree, c) = 0
                          /\ tree[c] = Checked
                          /\ store[c] = "text"
           /\ Places(extra_context.text, "[Chapter Summary - ") # {}
                  => \E d \in Chapters(tree) :
                         childCount(tree, d) = 0 /\ tree[d] = Checked
           /\ \A c \in Chapters(tree) : \A s \in Scenes(tree, c) :
                  s \in Contributors <=> tree[s] = Checked /\ store[s] = "text"

\* C22 witness: a Checked chapter with a summary and a Checked scene; the
\* text holds the scene's block and no chapter summary.
C22_Witness ==
    /\ extra_context.called
    /\ \E c \in Chapters(tree) :
           /\ tree[c] = Checked
           /\ store[c] = "text"
           /\ \E s \in Scenes(tree, c) : s \in Contributors
           /\ c \notin Contributors
    /\ Places(extra_context.text, "[Chapter Summary - ") = {}

\* The items named in the list the dialog returned.
Selected ==
    {n \in DOMAIN tree :
        \E i \in 1..Len(selections.list) :
            selections.list[i] =
                IF Kind(n) = "entry" THEN EntrySelection(n) ELSE <<Label(n)>>}

\* C23: only items that are exactly Checked contribute: an item whose block
\* is in the text get_selected_context_text returned, or whose name is in
\* the list get_selected_contexts returned, is Checked and has no children.
C23_OnlyCheckedContribute ==
    /\ extra_context.called
           => \A n \in Contributors :
                  tree[n] = Checked /\ childCount(tree, n) = 0
    /\ selections.called
           => \A n \in Selected :
                  tree[n] = Checked /\ childCount(tree, n) = 0

\* C23 witness: the dialog returned a list with the name of a Checked item
\* while another item without children was PartiallyChecked.
C23_Witness ==
    /\ selections.called
    /\ Selected # {}
    /\ \E n \in DOMAIN tree :
           childCount(tree, n) = 0 /\ tree[n] = PartiallyChecked

\* The same for the panel.
C23_WitnessPanel ==
    /\ extra_context.called
    /\ Contributors # {}
    /\ \E n \in DOMAIN tree :
           childCount(tree, n) = 0 /\ tree[n] = PartiallyChecked

\* The store has the entry under the category: the file parses into an
\* object whose "categories" maps the category to an object with the entry.
HasEntry(file, category, entry) ==
    /\ file.exists /\ file.valid
    /\ file.json.type = "object"
    /\ "categories" \in DOMAIN file.json.map
    /\ file.json.map["categories"].type = "object"
    /\ category \in DOMAIN file.json.map["categories"].map
    /\ file.json.map["categories"].map[category].type = "object"
    /\ entry \in DOMAIN file.json.map["categories"].map[category].map

\* C24 as stated: get_compendium_text returns the stored text when the
\* store has the entry under the category, and otherwise returns the
\* placeholder with the names substituted; it never raises.
C24_TextOrPlaceholder ==
    answer.op = "text"
        => /\ ~answer.raised
           /\ answer.value =
                  IF HasEntry(compendium_json, answer.category, answer.entry)
                    THEN compendium_json.json.map["categories"]
                             .map[answer.category].map[answer.entry]
                    ELSE Placeholder(answer.category, answer.entry)

\* The file is missing or not JSON, or every value in it has the expected
\* shape.
WellShaped(file) ==
    \/ ~file.exists
    \/ ~file.valid
    \/ /\ file.json.type = "object"
       /\ "categories" \in DOMAIN file.json.map
              => /\ file.json.map["categories"].type = "object"
                 /\ \A c \in DOMAIN file.json.map["categories"].map :
                        file.json.map["categories"].map[c].type = "object"

\* What holds of get_compendium_text: the same, for a well-shaped file.
C24_WellShapedTextOrPlaceholder ==
    answer.op = "text" /\ WellShaped(compendium_json)
        => /\ ~answer.raised
           /\ answer.value =
                  IF HasEntry(compendium_json, answer.category, answer.entry)
                    THEN compendium_json.json.map["categories"]
                             .map[answer.category].map[answer.entry]
                    ELSE Placeholder(answer.category, answer.entry)

\* The file parses into a category mapping.
HasCategoryMapping(file) ==
    /\ file.exists /\ file.valid
    /\ file.json.type = "object"
    /\ "categories" \in DOMAIN file.json.map
    /\ file.json.map["categories"].type = "object"

\* C25 as stated: when the file is missing, is not JSON, or is JSON that is
\* not an object with a categories mapping, build_compendium_tree builds an
\* empty tree and does not raise, in both widgets.
C25_EmptyTreeNoRaise ==
    answer.op = "build" /\ ~HasCategoryMapping(compendium_json)
        => ~answer.raised /\ answer.value = {}

\* What holds of build_compendium_tree: a missing file and a file that is
\* not JSON give an empty tree.
C25_MissingOrInvalidEmptyTree ==
    /\ answer.op = "build"
    /\ ~compendium_json.exists \/ ~compendium_json.valid
    => ~answer.raised /\ answer.value = {}

\* C28 as stated: the rendered block determines kind, label and body: no
\* other kind, label and body of the bounded sets render to the same block.
C28_BlockRoundTrip ==
    answer.op = "block"
        => \A k \in BlockKinds, l \in BlockLabels, b \in BlockBodies :
               RenderBlock(k, l, b) = answer.value
                   => k = answer.kind /\ l = answer.label /\ b = answer.body

\* What holds of the blocks: those of chapters and scenes determine kind,
\* label and body among the blocks of chapters and scenes.
C28_ProjectBlockRoundTrip ==
    answer.op = "block" /\ answer.kind # "compendium"
        => \A k \in BlockKinds \ {"compendium"}, l \in BlockLabels,
              b \in BlockBodies :
               RenderBlock(k, l, b) = answer.value
                   => k = answer.kind /\ l = answer.label /\ b = answer.body

\* C26 as stated: hiding or showing the panel of the project window leaves
\* every item's check state unchanged.
C26_SelectionsPersist ==
    [][widget = ContextPanel /\ last'.op \in {"hide", "show"}
           => tree' = tree]_vars

\* What holds: hiding the panel leaves every check state unchanged.
C26_HidingKeepsSelections ==
    [][widget = ContextPanel /\ last'.op = "hide" => tree' = tree]_vars

\* C27 as stated: the handling of one click terminates, and the parents'
\* states are recomputed at most once per level of the tree.
C27_RecomputationsBoundedByDepth ==
    last.op = "click" => last.ups <= TreeDepth

\* What holds: the handling of a click on an item without children or
\* sisters recomputes its parent once.
C27_OnlyChildOneRecomputation ==
    /\ last.op = "click"
    /\ Kind(last.item) = "scene"
    /\ childCount(tree, Parent(last.item)) = 1
    => last.ups = 1

\* C29 as stated: the payload handed to the transport has the user message
\* being sent as its last entry, also when the send summarized.
C29_PayloadEndsWithUserMessage ==
    sent.op = "send"
        => sent.payload[Len(sent.payload)] = sent.full[Len(sent.full)]

\* What holds: the payload of a send that did not summarize ends with the
\* user message being sent.
C29_UnsummarizedEndsWithUserMessage ==
    sent.op = "send" /\ ~sent.summarized
        => /\ sent.payload[Len(sent.payload)] = sent.full[Len(sent.full)]
           /\ sent.full[Len(sent.full)].role = "user"
           /\ sent.full[Len(sent.full)].content.n = sends

\* The messages of the history with the given role that belong to send n.
Kept(role, n) ==
    {i \in 1..Len(conversation_history) :
        /\ conversation_history[i].role = role
        /\ conversation_history[i].content.n = n}

\* Every send so far has returned with a response, none has summarized.
AllReturned ==
    /\ WorkshopWindow
    /\ alive
    /\ stack = <<>>
    /\ Cardinality({i \in 1..Len(chat_log) : chat_log[i] = "LLM"}) = sends
    /\ \A i \in 1..Len(chat_log) : chat_log[i] # "Summarized"

\* C30 as stated: no exchange is lost when send_message is re-entered:
\* after all sends have returned, the history holds the user message and
\* the assistant response of every one of them.
C30_NoExchangeLost ==
    AllReturned
        => \A n \in 1..sends : Kept("user", n) # {} /\ Kept("assistant", n) # {}

\* What holds: the exchange of the send that stored last is in the history.
C30_LastStoredKept ==
    AllReturned /\ sends > 0
        => \E n \in 1..sends : Kept("user", n) # {} /\ Kept("assistant", n) # {}

\* The speech threads that have not ended.
Running == {w \in 1..Len(workers) : workers[w] # "done"}

\* C31 as stated, the idle half: once no speech thread is running and no
\* button reset is pending, tts_playing is false and the button reads "TTS".
C31_IdleButtonReadsTts ==
    Running = {} /\ posted = 0 => ~tts_playing /\ tts_button = "TTS"

\* C31 as stated, the running half: at most one speech thread is running at
\* a time, and the button reads "Stop TTS" only while tts_playing is true
\* or a button reset is pending.
C31_OneThreadAndStopOnlyWhilePlaying ==
    /\ Cardinality(Running) <= 1
    /\ tts_button = "Stop TTS" /\ posted = 0 => tts_playing

\* What holds: tts_playing is true only while a speech thread is running.
C31_PlayingOnlyWhileRunning ==
    tts_playing => Running # {}

\* a is the parent of n, or the parent of its parent.
IsAncestor(a, n) ==
    a # NoItem /\ (a = Parent(n) \/ a = Parent(Parent(n)))

\* m is n, an ancestor of n or a descendant of n.
OnPath(n, m) == m = n \/ IsAncestor(m, n) \/ IsAncestor(n, m)

\* The chapter or category n is, or is under; an act stands for itself.
Branch(n) ==
    IF Kind(n) \in {"scene", "entry"} THEN Parent(n) ELSE n

\* C32 as stated: a click on an item changes only that item, its
\* descendants and its ancestors: every other item, of either tree, keeps
\* its state.
C32_TogglesAreLocal ==
    [][last'.op = "click"
           => \A m \in DOMAIN tree :
                  ~OnPath(last'.item, m) => tree'[m] = tree[m]]_vars

\* What holds: a click changes no item of the other tree and no item under
\* a different chapter or category.
C32_OtherBranchesUnchanged ==
    [][last'.op = "click"
           => \A m \in DOMAIN tree :
                  Branch(m) # Branch(last'.item) => tree'[m] = tree[m]]_vars

\* C33 as stated: the two implementations of the propagation agree: the
\* handlers of ContextPanel and those of ExtendedContextDialog, run on the
\* same tree for the same click, end with the same state on every item.
C33_ImplementationsAgree ==
    last.op = "click" => last.agree

\* What holds: they agree on a click on a compendium entry, and on a click
\* on an item with neither sisters nor children.
C33_AgreeWithoutSisters ==
    /\ last.op = "click"
    /\ \/ Kind(last.item) = "entry"
       \/ /\ childCount(tree, last.item) = 0
          /\ childCount(tree, Parent(last.item)) = 1
    => last.agree

=============================================================================
